---- MODULE Spec2Model ----
(***************************************************************************)
(* Calibration scripts drag_left/run.py and torque_arm/run.py: main runs   *)
(* run_cal("ascending") then run_cal("descending"); run_cal walks the      *)
(* setpoints of create_dataframe, prompting the operator, acquiring a      *)
(* window through daqmx, saving it and storing its mean/std; main then     *)
(* regresses each table and their concatenation and writes                 *)
(* calibration.json.  A Python exception that nothing catches ends the     *)
(* process (pc = "aborted").                                               *)
(*                                                                         *)
(* Numbers.  Python floats are modelled as integers in fixed point:        *)
(* applied loads in units of 1/Scale, conversion factors in 1/1000 and     *)
(* 1/10000.  A float that may be NaN is a record [nan, val].  Values of    *)
(* np.linspace are exact fractions [num, den].                             *)
(***************************************************************************)
EXTENDS Integers, Sequences, FiniteSets, TLC

\* ---- bounds of the model ----
MaxSteps == 2        \* largest steps_ascending / steps_descending tried
SamplesPerSecond == 1 \* model scale of sample_rate: samples the loop waits for per second of test_dur
Overrun == 1         \* samples the device may append beyond the wanted count during the loop's last sleep

\* ---- inputs ----
Variants == {"drag_left", "torque_arm"}
StepCounts == -1 .. MaxSteps
Durations == {0, 1}          \* test_dur, seconds
InitialReadings == {0, 1}    \* numbers the operator types at the first prompt, lbf
FinalReadings == {1}         \* and at the second
Signals == {0, 1}            \* level of the bridge signal while a setpoint is held, V/V

\* ---- fixed point ----
Scale == 2 * 1000             \* halves and thousandths of the operator's unit are exact
LbfToNewtonsMilli == 4448    \* 4.44822162, in 1/1000
CalLengthE4 == 2032          \* cal_length = 0.2032 m, in 1/10000

VARIABLES
    variant,          \* which script runs
    steps_ascending, steps_descending, test_dur,   \* module-level configuration
    pc,               \* position of the single thread of control
    direction,        \* argument of the running run_cal ("" outside run_cal)
    df,               \* run_cal's table: sequence of rows
    index,            \* run_cal's loop index (0-based as in the source)
    task_running,     \* daqmx task started and not yet stopped
    task_data,        \* task.data["volts_per_volt"] (task.data["time"] has the same length)
    device_stalled,   \* the device has stopped delivering samples without raising
    rawdata,          \* run_cal's rawdata
    returned,         \* main's (df, regression) of each run_cal that returned: direction -> record
    df_all, reg_all,  \* main's merged table and regression: <<>> until assigned, then <<value>>
    metadata,         \* main's metadata dict
    files,            \* paths written on disk
    calibration_json, \* content of calibration.json: <<>> while absent, then <<metadata>>
    error,            \* the uncaught exception, [type, at]
    phases,           \* history: steps the current setpoint has gone through
    interactions      \* history: kinds of hardware/operator interaction that have happened

cfgvars == <<variant, steps_ascending, steps_descending, test_dur>>
vars == <<variant, steps_ascending, steps_descending, test_dur, pc, direction, df, index,
          task_running, task_data, device_stalled, rawdata, returned, df_all, reg_all,
          metadata, files, calibration_json, error, phases, interactions>>

NoError == [type |-> "none", at |-> ""]
NaN == [nan |-> TRUE, val |-> 0]
Num(v) == [nan |-> FALSE, val |-> v]

\* ---- configuration ----
min_force == 0
max_force == IF variant = "drag_left" THEN 500 ELSE 360
phys_chan == IF variant = "drag_left" THEN "ai1" ELSE "ai0"
units == IF variant = "drag_left" THEN "N/(V/V)" ELSE "Nm/(V/V)"
steps(d) == IF d = "ascending" THEN steps_ascending ELSE steps_descending

\* ---- unit conversion ----
lbf_to_newtons(x) == (x * LbfToNewtonsMilli) \div 1000
lbf_to_nm(lbf) == (lbf_to_newtons(lbf) * CalLengthE4) \div 10000
\* what run_cal stores for an operator reading r (a whole number of lbf)
stored_reading(r) == IF variant = "drag_left" THEN r * Scale ELSE lbf_to_nm(r * Scale)
\* the applied column regress is given, from the mean of the two stored readings
applied_of(mean) == IF variant = "drag_left" THEN lbf_to_newtons(mean) ELSE mean

\* ---- np.linspace(start, stop, num) for num >= 0: start + i*step with   ----
\* ---- step = (stop-start)/(num-1), the last value set to stop           ----
linspace_no_endpoint(start, stop, num) ==
    [i \in 1 .. num |-> [num |-> start * num + (i - 1) * (stop - start), den |-> num]]
linspace(start, stop, num) ==
    IF num = 1 THEN << [num |-> start, den |-> 1] >>
    ELSE [i \in 1 .. num |->
            IF i = num THEN [num |-> stop * (num - 1), den |-> num - 1]
            ELSE [num |-> start * (num - 1) + (i - 1) * (stop - start), den |-> num - 1]]

create_dataframe(d) ==
    LET nominal == IF d = "ascending" THEN linspace(min_force, max_force, steps_ascending)
                   ELSE linspace(max_force, min_force, steps_descending)
    IN [i \in 1 .. Len(nominal) |->
          [nominal |-> nominal[i], initial |-> 0, final |-> 0,
           mean_volts_per_volt |-> Num(0), std_volts_per_volt |-> Num(0)]]

\* ---- numpy reductions of a window ----
RECURSIVE Sum(_)
Sum(s) == IF s = <<>> THEN 0 ELSE Head(s) + Sum(Tail(s))
isqrt(v) == CHOOSE r \in 0 .. v : r * r <= v /\ (r + 1) * (r + 1) > v
np_mean(w) == IF Len(w) = 0 THEN NaN ELSE Num(Sum(w) \div Len(w))
np_std(w) ==
    IF Len(w) = 0 THEN NaN
    ELSE LET m == Sum(w) \div Len(w)
         IN Num(isqrt(Sum([i \in 1 .. Len(w) |-> (w[i] - m) * (w[i] - m)]) \div Len(w)))

\* ---- regress: scipy.stats.linregress(volts_per_volt, applied) ----
\* The set of outcomes: a result dict, or "raise".  No count of points is
\* checked.  Where the library's answer depends on its version (no points,
\* or all x identical: a NaN slope from 0/0 in the releases of the script's
\* time, a ValueError in later ones) both outcomes are possible.
Raise == [raised |-> TRUE, slope |-> NaN, slope_den |-> 0, units |-> ""]
Result(num, den) == [raised |-> FALSE, slope |-> num, slope_den |-> den, units |-> units]
linregress(rows) ==
    LET n == Len(rows)
        x == [i \in 1 .. n |-> rows[i].mean_volts_per_volt]
        y == [i \in 1 .. n |-> rows[i].applied]
        xv == [i \in 1 .. n |-> x[i].val]
        ssxm == n * Sum([i \in 1 .. n |-> xv[i] * xv[i]]) - Sum(xv) * Sum(xv)
        ssxym == n * Sum([i \in 1 .. n |-> xv[i] * y[i]]) - Sum(xv) * Sum(y)
    IN IF \E i \in 1 .. n : x[i].nan THEN {Result(NaN, 0)}
       ELSE IF n = 0 \/ ssxm = 0 THEN {Result(NaN, 0), Raise}
       ELSE {Result(Num(ssxym), ssxm)}
regress_min3(rows) == IF Len(rows) < 3 THEN {Raise} ELSE linregress(rows)
regress(rows) == linregress(rows)

\* ---- DataFrame.append ----
append_swapped(a, b) == b \o a
append(a, b) == a \o b

Abort(type, at) ==
    /\ pc' = "aborted"
    /\ error' = [type |-> type, at |-> at]

TypeOK ==
    /\ variant \in Variants
    /\ steps_ascending \in StepCounts /\ steps_descending \in StepCounts
    /\ test_dur \in Durations
    /\ index \in 0 .. MaxSteps + 1
    /\ task_running \in BOOLEAN /\ device_stalled \in BOOLEAN
    /\ Len(task_data) <= test_dur * SamplesPerSecond + Overrun
    /\ pc \in {"main", "next_direction", "create_dataframe", "prompt_initial", "collect_data",
              "collect_loop", "save_raw_data", "summarize", "prompt_final", "loop_done",
              "regress", "merge", "save_metadata", "done", "aborted"}
    /\ direction \in {"", "ascending", "descending"}

Init ==
    /\ variant \in Variants
    /\ steps_ascending \in StepCounts
    /\ steps_descending \in StepCounts
    /\ test_dur \in Durations
    /\ pc = "main"
    /\ direction = ""
    /\ df = <<>>
    /\ index = 0
    /\ task_running = FALSE
    /\ task_data = <<>>
    /\ device_stalled = FALSE
    /\ rawdata = <<>>
    /\ returned = <<>>
    /\ df_all = <<>>
    /\ reg_all = <<>>
    /\ metadata = <<>>
    /\ files = {}
    /\ calibration_json = <<>>
    /\ error = NoError
    /\ phases = <<>>
    /\ interactions = {}

\* ---- main: metadata = {}; metadata["side"], metadata["9237 physical channel"] ----
initial_metadata ==
    IF variant = "drag_left"
    THEN ("side" :> "left") @@ ("9237 physical channel" :> phys_chan)
    ELSE ("9237 physical channel" :> phys_chan)

\* ---- main: call run_cal for the next direction ----
CallRunCal ==
    /\ pc \in {"main", "next_direction"}
    /\ direction' = IF pc = "main" THEN "ascending" ELSE "descending"
    /\ pc' = "create_dataframe"
    /\ metadata' = IF pc = "main" THEN initial_metadata ELSE metadata
    /\ UNCHANGED <<cfgvars, df, index, task_running, task_data, device_stalled, rawdata,
                   returned, df_all, reg_all, files, calibration_json, error, phases,
                   interactions>>

\* ---- run_cal: df = create_dataframe(direction), and the loop's entry ----
\* np.linspace raises ValueError for a negative count.
CreateDataframeRaises ==
    /\ pc = "create_dataframe"
    /\ steps(direction) < 0
    /\ Abort("ValueError", "linspace")
    /\ UNCHANGED <<cfgvars, direction, df, index, task_running, task_data, device_stalled,
                   rawdata, returned, df_all, reg_all, metadata, files, calibration_json,
                   phases, interactions>>
CreateDataframe ==
    /\ pc = "create_dataframe"
    /\ steps(direction) >= 0
    /\ df' = create_dataframe(direction)
    /\ index' = 0
    /\ phases' = <<>>
    /\ pc' = IF Len(df') = 0 THEN "loop_done" ELSE "prompt_initial"
    /\ UNCHANGED <<cfgvars, direction, task_running, task_data, device_stalled, rawdata,
                   returned, df_all, reg_all, metadata, files, calibration_json, error,
                   interactions>>

\* ---- initial_force = float(input(...)); df.initial[index] = ... ----
PromptInitial ==
    /\ pc = "prompt_initial"
    /\ phases' = <<"PromptingInitial">>
    /\ interactions' = interactions \cup {"prompt"}
    /\ \E r \in InitialReadings :
          df' = [df EXCEPT ![index + 1].initial = stored_reading(r)]
    /\ pc' = "collect_data"
    /\ UNCHANGED <<cfgvars, direction, index, rawdata, task_running, task_data, device_stalled,
                   returned, df_all, reg_all, metadata, files, calibration_json, error>>
\* the operator types text that float() cannot parse: ValueError, uncaught
PromptInitialUnparsable ==
    /\ pc = "prompt_initial"
    /\ phases' = <<"PromptingInitial">>
    /\ interactions' = interactions \cup {"prompt"}
    /\ Abort("ValueError", "float")
    /\ UNCHANGED <<cfgvars, direction, df, index, task_running, task_data, device_stalled,
                   rawdata, returned, df_all, reg_all, metadata, files, calibration_json>>

\* ---- collect_data: channel and task set up, task.start() ----
TaskStart ==
    /\ pc = "collect_data"
    /\ task_running' = TRUE
    /\ task_data' = <<>>
    /\ device_stalled' = FALSE
    /\ phases' = Append(phases, "Acquiring")
    /\ interactions' = interactions \cup {"acquire"}
    /\ pc' = "collect_loop"
    /\ UNCHANGED <<cfgvars, direction, df, index, rawdata, returned, df_all, reg_all,
                   metadata, files, calibration_json, error>>
\* a daqmx call raises (no device, task cannot start): uncaught
TaskStartRaises ==
    /\ pc = "collect_data"
    /\ phases' = Append(phases, "Acquiring")
    /\ interactions' = interactions \cup {"acquire"}
    /\ Abort("AcquisitionError", "daqmx")
    /\ UNCHANGED <<cfgvars, direction, df, index, task_running, task_data, device_stalled,
                   rawdata, returned, df_all, reg_all, metadata, files, calibration_json>>

\* ---- the device's callback appends samples while the task runs ----
wanted == test_dur * SamplesPerSecond       \* duration*sample_rate
\* With wanted = 0 the loop's test fails at once, before any sample can arrive.
max_window == IF wanted = 0 THEN 0 ELSE wanted + Overrun
DeviceDeliver ==
    /\ task_running /\ ~device_stalled
    /\ Len(task_data) < max_window
    /\ \E s \in Signals :
          /\ (IF task_data = <<>> THEN TRUE ELSE s = task_data[1])
          /\ task_data' = Append(task_data, s)
    /\ UNCHANGED <<cfgvars, pc, direction, df, index, task_running, device_stalled, rawdata,
                   returned, df_all, reg_all, metadata, files, calibration_json, error,
                   phases, interactions>>
\* the device stops delivering and nothing is raised in the main thread
DeviceStall ==
    /\ task_running /\ ~device_stalled
    /\ device_stalled' = TRUE
    /\ UNCHANGED <<cfgvars, pc, direction, df, index, task_running, task_data, rawdata,
                   returned, df_all, reg_all, metadata, files, calibration_json, error,
                   phases, interactions>>

\* ---- while len(task.data["time"]) < duration*sample_rate: sleep; then ----
\* ---- task.stop(); task.clear(); return task.data                    ----
\* While the condition holds the loop only sleeps: no step is enabled.
collect_loop_waits == Len(task_data) < wanted
CollectReturn ==
    /\ pc = "collect_loop"
    /\ ~collect_loop_waits
    /\ task_running' = FALSE
    /\ rawdata' = task_data
    /\ task_data' = <<>>
    /\ device_stalled' = FALSE
    /\ pc' = "save_raw_data"
    /\ UNCHANGED <<cfgvars, direction, df, index, returned, df_all, reg_all,
                   metadata, files, calibration_json, error, phases, interactions>>
\* task.stop() / task.clear() raises: uncaught
TaskStopRaises_swallowed ==
    /\ pc = "collect_loop"
    /\ ~collect_loop_waits
    /\ task_running' = FALSE
    /\ error' = [type |-> "AcquisitionError", at |-> "daqmx"]
    /\ pc' = "save_raw_data"
    /\ UNCHANGED <<cfgvars, direction, df, index, task_data, device_stalled, rawdata,
                   returned, df_all, reg_all, metadata, files, calibration_json, phases,
                   interactions>>
TaskStopRaises ==
    /\ pc = "collect_loop"
    /\ ~collect_loop_waits
    /\ task_running' = FALSE
    /\ task_data' = <<>>          \* collect_data's frame, and its task, are unwound
    /\ device_stalled' = FALSE
    /\ Abort("AcquisitionError", "daqmx")
    /\ UNCHANGED <<cfgvars, direction, df, index, rawdata,
                   returned, df_all, reg_all, metadata, files, calibration_json, phases,
                   interactions>>

\* ---- save_raw_data(rawdata, index, direction) ----
SaveRawData_skips_summary ==
    /\ pc = "save_raw_data"
    /\ files' = files \cup {<<"data/raw", direction, index>>}
    /\ pc' = "prompt_final"
    /\ UNCHANGED <<cfgvars, direction, df, index, task_running, task_data, device_stalled,
                   rawdata, returned, df_all, reg_all, metadata, calibration_json, error,
                   phases, interactions>>
SaveRawData ==
    /\ pc = "save_raw_data"
    /\ files' = files \cup {<<"data/raw", direction, index>>}
    /\ pc' = "summarize"
    /\ UNCHANGED <<cfgvars, direction, df, index, task_running, task_data, device_stalled,
                   rawdata, returned, df_all, reg_all, metadata, calibration_json, error,
                   phases, interactions>>
\* os.makedirs or ts.savehdf raises: uncaught
SaveRawDataRaises ==
    /\ pc = "save_raw_data"
    /\ Abort("IOError", "save_raw_data")
    /\ rawdata' = <<>>            \* the window is not used again
    /\ UNCHANGED <<cfgvars, direction, df, index, task_running, task_data, device_stalled,
                   returned, df_all, reg_all, metadata, files, calibration_json,
                   phases, interactions>>

\* ---- df.mean_volts_per_volt[index] = np.mean(...); df.std... = np.std(...) ----
Summarize ==
    /\ pc = "summarize"
    /\ df' = [df EXCEPT ![index + 1].mean_volts_per_volt = np_mean(rawdata),
                        ![index + 1].std_volts_per_volt = np_std(rawdata)]
    /\ phases' = Append(phases, "Summarizing")
    /\ pc' = "prompt_final"
    /\ UNCHANGED <<cfgvars, direction, index, task_running, task_data, device_stalled,
                   rawdata, returned, df_all, reg_all, metadata, files, calibration_json,
                   error, interactions>>

\* ---- final_force = float(input(...)); df.final[index] = ...; next iteration ----
PromptFinal ==
    /\ pc = "prompt_final"
    /\ phases' = Append(phases, "PromptingFinal")
    /\ interactions' = interactions \cup {"prompt"}
    /\ \E r \in FinalReadings :
          df' = [df EXCEPT ![index + 1].final = stored_reading(r)]
    /\ index' = index + 1
    /\ pc' = IF index + 1 < Len(df) THEN "prompt_initial" ELSE "loop_done"
    /\ rawdata' = <<>>      \* the window is not used again
    /\ UNCHANGED <<cfgvars, direction, task_running, task_data, device_stalled,
                   returned, df_all, reg_all, metadata, files, calibration_json, error>>
PromptFinalUnparsable ==
    /\ pc = "prompt_final"
    /\ phases' = Append(phases, "PromptingFinal")
    /\ interactions' = interactions \cup {"prompt"}
    /\ Abort("ValueError", "float")
    /\ rawdata' = <<>>            \* the window is not used again
    /\ UNCHANGED <<cfgvars, direction, df, index, task_running, task_data, device_stalled,
                   returned, df_all, reg_all, metadata, files, calibration_json>>

\* ---- after the loop: the mean applied column, then df.to_csv ----
with_applied(rows) ==
    [i \in 1 .. Len(rows) |->
        [nominal |-> rows[i].nominal, initial |-> rows[i].initial, final |-> rows[i].final,
         mean_volts_per_volt |-> rows[i].mean_volts_per_volt,
         std_volts_per_volt |-> rows[i].std_volts_per_volt,
         applied |-> applied_of((rows[i].initial + rows[i].final) \div 2)]]
WriteCsv ==
    /\ pc = "loop_done"
    /\ df' = with_applied(df)
    /\ files' = files \cup {<<"data/processed", direction, 0>>}
    /\ pc' = "regress"
    /\ UNCHANGED <<cfgvars, direction, index, task_running, task_data, device_stalled,
                   rawdata, returned, df_all, reg_all, metadata, calibration_json, error,
                   phases, interactions>>
WriteCsvRaises ==
    /\ pc = "loop_done"
    /\ df' = with_applied(df)
    /\ Abort("IOError", "to_csv")
    /\ UNCHANGED <<cfgvars, direction, index, task_running, task_data, device_stalled,
                   rawdata, returned, df_all, reg_all, metadata, files, calibration_json,
                   phases, interactions>>

\* ---- regression = regress(...); return df, regression (to main) ----
RegressAndReturn ==
    /\ pc = "regress"
    /\ \E r \in regress(df) :
          IF r.raised
          THEN /\ Abort("ValueError", "linregress")
               /\ UNCHANGED <<returned, direction, df, index, phases>>
          ELSE /\ returned' = (direction :> [df |-> df, regression |-> r]) @@ returned
               /\ pc' = IF direction = "ascending" THEN "next_direction" ELSE "merge"
               /\ direction' = ""
               /\ df' = <<>>
               /\ index' = 0
               /\ phases' = <<>>
               /\ error' = error
    /\ UNCHANGED <<cfgvars, task_running, task_data, device_stalled, rawdata, df_all,
                   reg_all, metadata, files, calibration_json, interactions>>

\* ---- main, lines 120-125: metadata, df_all, reg_all ----
Merge ==
    /\ pc = "merge"
    /\ df_all' = << append(returned["ascending"].df, returned["descending"].df) >>
    /\ \E r \in regress(df_all'[1]) :
          IF r.raised
          THEN /\ Abort("ValueError", "linregress")
               /\ UNCHANGED <<reg_all, metadata>>
          ELSE /\ reg_all' = <<r>>
               /\ metadata' =
                    ("linear regression ascending" :> returned["ascending"].regression)
                    @@ ("linear regression descending" :> returned["descending"].regression)
                    @@ ("linear regression all" :> r)
                    @@ ("timestamp" :> "asctime")
                    @@ metadata
               /\ pc' = "save_metadata"
               /\ error' = error
    /\ UNCHANGED <<cfgvars, direction, df, index, task_running, task_data, device_stalled,
                   rawdata, returned, files, calibration_json, phases, interactions>>

\* ---- save_metadata(metadata) ----
SaveMetadata ==
    /\ pc = "save_metadata"
    /\ calibration_json' = <<metadata>>
    /\ pc' = "done"
    /\ UNCHANGED <<cfgvars, direction, df, index, task_running, task_data, device_stalled,
                   rawdata, returned, df_all, reg_all, metadata, files, error, phases,
                   interactions>>
SaveMetadataRaises ==
    /\ pc = "save_metadata"
    /\ Abort("IOError", "save_metadata")
    /\ UNCHANGED <<cfgvars, direction, df, index, task_running, task_data, device_stalled,
                   rawdata, returned, df_all, reg_all, metadata, files, calibration_json,
                   phases, interactions>>

Program ==
    \/ CallRunCal \/ CreateDataframe \/ CreateDataframeRaises
    \/ PromptInitial \/ PromptInitialUnparsable
    \/ TaskStart \/ TaskStartRaises \/ CollectReturn \/ TaskStopRaises
    \/ SaveRawData \/ SaveRawDataRaises \/ Summarize
    \/ PromptFinal \/ PromptFinalUnparsable
    \/ WriteCsv \/ WriteCsvRaises \/ RegressAndReturn
    \/ Merge \/ SaveMetadata \/ SaveMetadataRaises
Device == DeviceDeliver \/ DeviceStall

Next == Program \/ Device

Spec == Init /\ [][Next]_vars

\* The device keeps delivering unless it has stalled, and the thread of
\* control takes its next step whenever it has one.
FairSpec == Spec /\ WF_vars(Program) /\ WF_vars(DeviceDeliver)

\* ======================= properties =======================

\* a configuration as the scripts ship: at least 2 steps each way, a positive duration
ValidConfig == steps_ascending >= 2 /\ steps_descending >= 2 /\ test_dur > 0
IsPrefix(s, t) == Len(s) <= Len(t) /\ \A i \in 1 .. Len(s) : s[i] = t[i]
Finite(f) == ~f.nan
Tables == {df} \cup {returned[d].df : d \in DOMAIN returned}

\* C1: once acquisition has failed (at any setpoint of either direction) the
\* run is aborted: calibration.json is never written, no merged table or
\* regression exists, the failing sweep returned nothing to main, and every
\* table main holds has as many rows as its direction's step count.
C1_AcquisitionFailureAborts ==
    error.type = "AcquisitionError" =>
        /\ pc = "aborted"
        /\ calibration_json = <<>>
        /\ df_all = <<>> /\ reg_all = <<>>
        /\ direction \notin DOMAIN returned
        /\ \A d \in DOMAIN returned : Len(returned[d].df) = steps(d)
C1_Witness ==
    /\ error.type = "AcquisitionError"
    /\ direction = "descending" /\ index = 1
    /\ "ascending" \in DOMAIN returned

\* C2 (as claimed): a setpoint goes PromptingInitial, Acquiring,
\* PromptingFinal, Summarizing: mean/std only after the final reading.
ClaimedOrder == <<"PromptingInitial", "Acquiring", "PromptingFinal", "Summarizing">>
C2_OrderAsClaimed == ValidConfig => IsPrefix(phases, ClaimedOrder)
\* C2 (amended): a setpoint goes PromptingInitial, Acquiring, Summarizing,
\* PromptingFinal, in that order; the next setpoint's initial prompt begins
\* only after the current setpoint has gone through all four.
CodeOrder == <<"PromptingInitial", "Acquiring", "Summarizing", "PromptingFinal">>
C2_OrderInCode ==
    /\ IsPrefix(phases, CodeOrder)
    /\ (pc \in {"save_raw_data", "summarize"}) => phases = SubSeq(CodeOrder, 1, 2)
    /\ (pc = "prompt_final") => phases = SubSeq(CodeOrder, 1, 3)
    /\ (pc = "prompt_initial" /\ index > 0) => phases = CodeOrder
C2_Witness == pc = "prompt_initial" /\ index = 1 /\ phases = CodeOrder

\* C3: a sweep that returned, with a step count of at least 2, has exactly
\* that many rows, nominal values strictly increasing from the lower to the
\* upper bound (ascending) or strictly decreasing from the upper to the lower
\* bound (descending), the first and last rows equal to those bounds.
Monotonic(rows, up) ==
    \A i \in 1 .. Len(rows) - 1 :
        /\ rows[i].nominal.den = rows[i + 1].nominal.den
        /\ IF up THEN rows[i].nominal.num < rows[i + 1].nominal.num
                 ELSE rows[i].nominal.num > rows[i + 1].nominal.num
Equals(frac, v) == frac.num = v * frac.den
C3_SweepTableShape ==
    \A d \in DOMAIN returned :
        steps(d) >= 2 =>
            LET rows == returned[d].df
                first == IF d = "ascending" THEN min_force ELSE max_force
                last == IF d = "ascending" THEN max_force ELSE min_force
            IN /\ Len(rows) = steps(d)
               /\ Monotonic(rows, d = "ascending")
               /\ Equals(rows[1].nominal, first)
               /\ Equals(rows[Len(rows)].nominal, last)
C3_Witness ==
    /\ DOMAIN returned = {"ascending", "descending"}
    /\ steps_ascending = MaxSteps /\ steps_descending = MaxSteps

\* C4 (as claimed): with a step count below 2 in either direction no operator
\* prompt and no acquisition ever happens.
C4_ConfigErrorBeforeHardware ==
    (steps_ascending < 2 \/ steps_descending < 2) => interactions = {}

TwoDistinct(rows) ==
    /\ Len(rows) = 2
    /\ Finite(rows[1].mean_volts_per_volt) /\ Finite(rows[2].mean_volts_per_volt)
    /\ rows[1].mean_volts_per_volt.val # rows[2].mean_volts_per_volt.val
C6_PersistenceFailureContinues ==
    (ValidConfig /\ error.type = "IOError") => pc # "aborted"

\* C7 (as claimed): an entry that does not parse never aborts the sweep.
C7_UnparsableNeverAborts == ValidConfig => ~(pc = "aborted" /\ error.at = "float")

\* C8: the merged table exists only once both sweeps have returned; it has
\* steps_ascending + steps_descending rows, the ascending rows first and the
\* descending rows after them, each in its sweep's order and each row
\* unchanged; the merged regression is the regression of that table.
C8_MergedInputOrder ==
    /\ df_all # <<>> =>
          /\ DOMAIN returned = {"ascending", "descending"}
          /\ pc \in {"aborted", "save_metadata", "done"}
          /\ LET asc == returned["ascending"].df
                 desc == returned["descending"].df
                 all == df_all[1]
             IN /\ Len(all) = steps_ascending + steps_descending
                /\ \A i \in 1 .. Len(asc) : all[i] = asc[i]
                /\ \A j \in 1 .. Len(desc) : all[Len(asc) + j] = desc[j]
    /\ reg_all # <<>> => (df_all # <<>> /\ reg_all[1] \in linregress(df_all[1]))
C8_Witness ==
    /\ reg_all # <<>>
    /\ steps_ascending = 2 /\ steps_descending = 1
    /\ Finite(reg_all[1].slope)

\* C9 (as claimed): every acquisition call eventually returns control, by
\* returning the window or by failing.
C9_AcquisitionReturns ==
    (ValidConfig /\ pc = "collect_loop") ~> (pc # "collect_loop")

\* C10 (as claimed): no NaN mean or standard deviation is ever stored in a
\* setpoint result.
C10_NoNaNStored ==
    \A t \in Tables : \A i \in 1 .. Len(t) :
        Finite(t[i].mean_volts_per_volt) /\ Finite(t[i].std_volts_per_volt)

====
